---- MODULE Spec2Model ----
(***************************************************************************)
(* Model of wptrunner/manifestupdate.py: the expectation node tree         *)
(* (ExpectedManifest, TestNode), evidence recording (set_result), the      *)
(* reconciliation step (coalesce_expected) and the condition synthesizer   *)
(* (group_conditionals, make_expr).                                        *)
(*                                                                         *)
(* The generic attribute tree of wptmanifest.backends.conditional          *)
(* (ManifestItem.get / set / remove_value, ConditionalValue) is not part   *)
(* of the source slice; the operators ManifestItem_* below model it.       *)
(***************************************************************************)
EXTENDS Integers, Sequences, FiniteSets, TLC

VARIABLES
    nodes,      \* the TestNode objects of the manifest, by object
    modified,   \* root.modified
    last,       \* the last call: operation, node, default_expected passed, exception
    calls,      \* number of set_result / coalesce_expected calls made
    batch,      \* per node, the Results recorded since its last coalesce_expected
    children,   \* ManifestItem.children of the manifest (Root) and of each node
    child_map,  \* ExpectedManifest.child_map: test id -> TestNode
    parent,     \* ManifestItem.parent of each node, None if it has none
    subtests,   \* TestNode.subtests of each node: name -> SubtestNode
    evidence,   \* the Results handed to group_conditionals
    grouped     \* what the last group_conditionals call returned, and for what

treeVars == <<children, child_map, parent, subtests>>

synthVars == <<evidence, grouped>>

vars == <<nodes, modified, last, calls, batch, children, child_map, parent, subtests,
          evidence, grouped>>

(***************************************************************************)
(* Bounds                                                                  *)
(***************************************************************************)
MaxResults == 3
MaxCoalesce == 2
MaxTreeOps == 4
MaxValues == 3

(***************************************************************************)
(* Values                                                                  *)
(***************************************************************************)
None == "None"

Statuses == {"PASS", "FAIL"}

DefaultExpecteds == {"PASS", "OK"}

\* A Result is the namedtuple (run_info, status).
Result(run_info, status) == [run_info |-> run_info, status |-> status]

\* Environment descriptors handed to set_result.
Linux == [debug |-> FALSE, os |-> "linux", version |-> "v1", processor |-> "x86", bits |-> 64]
Win == [debug |-> FALSE, os |-> "win", version |-> "v1", processor |-> "x86", bits |-> 64]
LinuxDebug == [debug |-> TRUE, os |-> "linux", version |-> "v1", processor |-> "x86", bits |-> 64]

RunInfos == {Linux, Win, LinuxDebug}

PairRunInfos == {Linux, Win}

\* Descriptors that differ in version, processor and bits as well.
Linux32 == [debug |-> FALSE, os |-> "linux", version |-> "v1", processor |-> "x86", bits |-> 32]
LinuxArm == [debug |-> FALSE, os |-> "linux", version |-> "v1", processor |-> "arm", bits |-> 64]
WinV2 == [debug |-> FALSE, os |-> "win", version |-> "v2", processor |-> "x86", bits |-> 64]

SynthRunInfos == {Linux, Win, LinuxDebug, Linux32, LinuxArm, WinV2}

PairStatuses == {"PASS", "FAIL"}

\* Properties whose values are numbers in the descriptors above.
NumericProps == {"bits"}

Digit(d) ==
    CASE d = 0 -> "0" [] d = 1 -> "1" [] d = 2 -> "2" [] d = 3 -> "3" [] d = 4 -> "4"
      [] d = 5 -> "5" [] d = 6 -> "6" [] d = 7 -> "7" [] d = 8 -> "8" [] d = 9 -> "9"

RECURSIVE Decimal(_)
Decimal(n) == IF n < 10 THEN Digit(n) ELSE Decimal(n \div 10) \o Digit(n % 10)

\* unicode(value): the literal text stored in a NumberNode / StringNode.
Unicode(prop, value) == IF prop \in NumericProps THEN Decimal(value) ELSE value

\* The number a NumberNode's text evaluates to.
NumberOf(text) == CHOOSE n \in 0..99 : Decimal(n) = text

(***************************************************************************)
(* Conditions.  A condition node is a conjunction of property tests, kept  *)
(* as the sequence of its conjuncts; the absent condition (None) is the    *)
(* empty sequence.  A test is [prop, kind, text] with kind                 *)
(*   "var" : VariableNode(prop)                                            *)
(*   "not" : UnaryExpressionNode(not, VariableNode(prop))                  *)
(*   "num" : prop == NumberNode(text)                                      *)
(*   "str" : prop == StringNode(text)                                      *)
(***************************************************************************)
NoCondition == <<>>

Test(prop, kind, text) == [prop |-> prop, kind |-> kind, text |-> text]

EvalTest(t, run_info) ==
    CASE t.kind = "var" -> run_info[t.prop]
      [] t.kind = "not" -> ~run_info[t.prop]
      [] t.kind = "num" -> run_info[t.prop] = NumberOf(t.text)
      [] t.kind = "str" -> run_info[t.prop] = t.text

\* ConditionalValue.__call__: the compiled condition applied to a descriptor.
CondHolds(cond, run_info) == \A i \in 1..Len(cond) : EvalTest(cond[i], run_info)

(***************************************************************************)
(* Sequence helpers                                                        *)
(***************************************************************************)
Range(s) == {s[i] : i \in 1..Len(s)}

Min(S) == CHOOSE x \in S : \A y \in S : x <= y

RemoveAt(s, i) == SubSeq(s, 1, i - 1) \o SubSeq(s, i + 1, Len(s))

InsertAt(s, i, x) == SubSeq(s, 1, i - 1) \o <<x>> \o SubSeq(s, i, Len(s))

IndexOf(s, x) == Min({i \in 1..Len(s) : s[i] = x})

AllSame(results) == \A i \in 1..Len(results) : results[1].status = results[i].status

(***************************************************************************)
(* TestNode.  heap holds the ConditionalValue objects of the node (an      *)
(* object is its index); expected is _data["expected"], a list of such     *)
(* objects, present iff has_expected; kv_node tells whether the AST node   *)
(* has a KeyValueNode child "expected".                                    *)
(***************************************************************************)
ConditionalValue(cond, value) == [cond |-> cond, value |-> value]

\* TestNode.__init__ followed by _add_key_value for the loaded table.
TestNode(name, test_type, reftype, refurl, table) ==
    [name |-> name, test_type |-> test_type, reftype |-> reftype, refurl |-> refurl,
     default_status |-> None,
     has_expected |-> Len(table) > 0,
     kv_node |-> Len(table) > 0,
     heap |-> table,
     expected |-> [i \in 1..Len(table) |-> i],
     updated_expected |-> [i \in 1..Len(table) |-> [cv |-> i, results |-> <<>>]],
     new_expected |-> <<>>]

\* TestNode.id for a manifest whose test_path has no directory part.
TestNode_id(n) ==
    IF n.test_type = "reftest" THEN <<"/" \o n.name, n.reftype, n.refurl>>
    ELSE <<"/" \o n.name>>

\* The stored expected entries as (condition, value) pairs, in stored order.
Stored(n) == [i \in 1..Len(n.expected) |-> n.heap[n.expected[i]]]

(***************************************************************************)
(* ManifestItem primitives (wptmanifest.backends.conditional).  Each       *)
(* returns the node and the exception raised, "none" if none.              *)
(***************************************************************************)
Ok(n) == [n |-> n, err |-> "none"]

Raise(n, e) == [n |-> n, err |-> e]

\* get("expected") without run_info: the first entry without a condition,
\* KeyError if there is none.
ManifestItem_get(n) ==
    LET idx == {i \in 1..Len(n.expected) : n.heap[n.expected[i]].cond = NoCondition}
    IN IF n.has_expected /\ idx # {} THEN n.heap[n.expected[Min(idx)]].value
       ELSE "KeyError"

\* set("expected", value, condition): update the entry that has this
\* condition, else add a new entry, in front of a trailing unconditional one.
ManifestItem_set(n, value, cond) ==
    LET idx == {i \in 1..Len(n.expected) : n.heap[n.expected[i]].cond = cond}
        new == Len(n.heap) + 1
        k == Len(n.expected)
    IN IF n.has_expected /\ idx # {}
       THEN [n EXCEPT !.heap[n.expected[Min(idx)]].value = value]
       ELSE [n EXCEPT !.heap = Append(n.heap, ConditionalValue(cond, value)),
                      !.has_expected = TRUE,
                      !.kv_node = TRUE,
                      !.expected = IF k > 0 /\ n.heap[n.expected[k]].cond = NoCondition
                                   THEN InsertAt(n.expected, k, new)
                                   ELSE Append(n.expected, new)]

\* remove_value("expected", cv): drop the object from the list, the key with
\* the last entry, and the AST node (with its KeyValueNode if it was alone).
ManifestItem_remove_value(n, cv) ==
    IF ~n.has_expected THEN Raise(n, "KeyError")
    ELSE IF cv \notin Range(n.expected) THEN Raise(n, "ValueError")
    ELSE Ok([n EXCEPT !.expected = RemoveAt(n.expected, IndexOf(n.expected, cv)),
                      !.has_expected = Len(n.expected) > 1,
                      !.kv_node = Len(n.expected) > 1])

(***************************************************************************)
(* TestNode.set_result                                                     *)
(***************************************************************************)
\* FirstMatch taking the last tracked condition that holds.
FirstMatch_last(n, run_info) ==
    LET idx == {i \in 1..Len(n.updated_expected) :
                    CondHolds(n.heap[n.updated_expected[i].cv].cond, run_info)}
    IN IF idx = {} THEN 0 ELSE CHOOSE x \in idx : \A y \in idx : y <= x

\* Index of the first tracked condition that holds for run_info, 0 if none.
FirstMatch(n, run_info) ==
    LET idx == {i \in 1..Len(n.updated_expected) :
                    CondHolds(n.heap[n.updated_expected[i].cv].cond, run_info)}
    IN IF idx = {} THEN 0 ELSE Min(idx)

\* set_result adopting a different default_expected instead of failing.
set_result_adopt(n, mod, run_info, status, default_expected) ==
    LET n1 == [n EXCEPT !.default_status = default_expected]
        i == FirstMatch(n1, run_info)
    IN IF i # 0
       THEN [n |-> [n1 EXCEPT !.updated_expected[i].results =
                                  Append(@, Result(run_info, status))],
             modified |-> mod \/ status # n1.heap[n1.updated_expected[i].cv].value,
             err |-> "none"]
       ELSE [n |-> [n1 EXCEPT !.new_expected = Append(@, Result(run_info, status))],
             modified |-> TRUE,
             err |-> "none"]

\* set_result marking the root only for a Result that matched no condition.
set_result_unmatched(n, mod, run_info, status, default_expected) ==
    IF n.default_status # None /\ n.default_status # default_expected
    THEN [n |-> n, modified |-> mod, err |-> "AssertionError"]
    ELSE LET n1 == [n EXCEPT !.default_status = default_expected]
             i == FirstMatch(n1, run_info)
         IN IF i # 0
            THEN [n |-> [n1 EXCEPT !.updated_expected[i].results =
                                       Append(@, Result(run_info, status))],
                  modified |-> mod,
                  err |-> "none"]
            ELSE [n |-> [n1 EXCEPT !.new_expected = Append(@, Result(run_info, status))],
                  modified |-> TRUE,
                  err |-> "none"]

\* Returns the node, the root's modified flag and the exception raised.
set_result(n, mod, run_info, status, default_expected) ==
    IF n.default_status # None /\ n.default_status # default_expected
    THEN [n |-> n, modified |-> mod, err |-> "AssertionError"]
    ELSE LET n1 == [n EXCEPT !.default_status = default_expected]
             i == FirstMatch(n1, run_info)
         IN IF i # 0
            THEN [n |-> [n1 EXCEPT !.updated_expected[i].results =
                                       Append(@, Result(run_info, status))],
                  modified |-> mod \/ status # n1.heap[n1.updated_expected[i].cv].value,
                  err |-> "none"]
            ELSE [n |-> [n1 EXCEPT !.new_expected = Append(@, Result(run_info, status))],
                  modified |-> TRUE,
                  err |-> "none"]

(***************************************************************************)
(* Condition synthesizer: make_expr and group_conditionals                 *)
(***************************************************************************)
prop_order == <<"debug", "os", "version", "processor", "bits">>

no_value_props == {"debug"}

\* One conjunct of make_expr for the pair (prop, value).
make_test(prop, value) ==
    IF prop \notin no_value_props
    THEN Test(prop, IF prop \in NumericProps THEN "num" ELSE "str", Unicode(prop, value))
    ELSE IF value THEN Test(prop, "var", "") ELSE Test(prop, "not", "")

\* An expression node: a property test, or BinaryExpressionNode("and", curr,
\* prev).
Leaf(t) == <<"test", t>>

And(curr, prev) == <<"and", curr, prev>>

\* and_chain nesting every "and" with its operands swapped.
RECURSIVE and_chain_swapped(_, _, _)
and_chain_swapped(expressions, k, prev) ==
    IF k = 0 THEN prev
    ELSE and_chain_swapped(expressions, k - 1, And(prev, expressions[k]))

\* The loop over reversed(expressions[:-1]), from expressions[k] down.
RECURSIVE and_chain(_, _, _)
and_chain(expressions, k, prev) ==
    IF k = 0 THEN prev
    ELSE and_chain(expressions, k - 1, And(expressions[k], prev))

\* The property tests of an expression in the order a short-circuit
\* evaluation reaches them: the left operand of "and" first.
RECURSIVE Conjuncts(_)
Conjuncts(node) ==
    IF node[1] = "and" THEN Conjuncts(node[2]) \o Conjuncts(node[3]) ELSE <<node[2]>>

\* make_expr: the ConditionalNode (condition, status); the caller sees the
\* AssertionError of an empty prop_set.
make_expr(prop_set, status) ==
    LET expressions == [k \in 1..Len(prop_set) |->
                           Leaf(make_test(prop_set[k][1], prop_set[k][2]))]
        node == IF Len(expressions) > 1
                THEN and_chain(expressions, Len(expressions) - 1,
                               expressions[Len(expressions)])
                ELSE expressions[1]
    IN [cond |-> Conjuncts(node), status |-> status]

\* by_property[(prop, value)]: the statuses seen with that property value.
by_property(values, prop, value) ==
    {values[i].status : i \in {j \in 1..Len(values) : values[j].run_info[prop] = value}}

\* The property names left after deleting the keys common to all values.
properties(values) ==
    {p \in Range(prop_order) :
        \E i \in 1..Len(values) :
            ~(Len(values) > 1 /\
              Cardinality(by_property(values, p, values[i].run_info[p])) = Len(values))}

include_props(values) == SelectSeq(prop_order, LAMBDA p : p \in properties(values))

\* prop_set of a result: its (prop, value) pairs for the included properties.
prop_set_of(props, result) ==
    [k \in 1..Len(props) |-> <<props[k], result.run_info[props[k]]>>]

\* The entries of the conditions dict in insertion order: the first result of
\* each distinct prop_set.
RECURSIVE conditions(_, _, _, _)
conditions(values, props, i, seen) ==
    IF i > Len(values) THEN <<>>
    ELSE LET ps == prop_set_of(props, values[i])
         IN IF ps \in seen THEN conditions(values, props, i + 1, seen)
            ELSE <<make_expr(ps, values[i].status)>>
                     \o conditions(values, props, i + 1, seen \cup {ps})

\* group_conditionals: what the call can return or raise.  It returns
\* conditions.values(), the entries of the dict in the order of the dict,
\* which the insertion order does not fix: one outcome per order.  It raises
\* the AssertionError of make_expr for an empty prop_set.
group_conditionals(values) ==
    LET props == include_props(values)
        entries == conditions(values, props, 1, {})
    IN IF Len(values) > 0 /\ Len(props) = 0
       THEN {[err |-> "AssertionError", conds |-> <<>>]}
       ELSE {[err |-> "none", conds |-> [k \in 1..Len(entries) |-> entries[order[k]]]] :
                order \in Permutations(1..Len(entries))}

(***************************************************************************)
(* TestNode.coalesce_expected                                              *)
(***************************************************************************)
\* unconditional_status: get("expected"), default_status on KeyError.
unconditional_status(n) ==
    IF ManifestItem_get(n) = "KeyError" THEN n.default_status ELSE ManifestItem_get(n)

\* The loop over updated_expected from index i on; s is (node, exception).
RECURSIVE coalesce_tracked(_, _, _)
coalesce_tracked(s, i, us) ==
    IF s.err # "none" \/ i > Len(s.n.updated_expected) THEN s
    ELSE LET n == s.n
             cv == n.updated_expected[i].cv
             results == n.updated_expected[i].results
             cond == n.heap[cv].cond
         IN IF Len(results) = 0
            THEN coalesce_tracked(s, i + 1, us)
            ELSE IF AllSame(results)
            THEN IF results[1].status = us /\ cond # NoCondition
                 THEN coalesce_tracked(ManifestItem_remove_value(n, cv), i + 1, us)
                 ELSE coalesce_tracked(Ok([n EXCEPT !.heap[cv].value = results[1].status]),
                                       i + 1, us)
            ELSE IF cond # NoCondition
            THEN LET r == ManifestItem_remove_value(n, cv)
                 IN IF r.err # "none" THEN r
                    ELSE coalesce_tracked(Ok([r.n EXCEPT !.new_expected = @ \o results]),
                                          i + 1, us)
            ELSE coalesce_tracked(
                     Ok([n EXCEPT !.new_expected =
                             @ \o SelectSeq(results, LAMBDA r : r.status # us)]),
                     i + 1, us)

\* synthesizes without the shortcut for a single status.
synthesizes_always(n) == Len(n.new_expected) > 0

\* Whether the node, as the loop left it, goes to group_conditionals.
synthesizes(n) ==
    /\ Len(n.new_expected) > 0
    /\ ~(AllSame(n.new_expected) /\ Len(n.updated_expected) = 0)

\* set() for each synthesized (condition, status) from index i on.
RECURSIVE set_conditionals(_, _, _, _)
set_conditionals(n, conds, i, us) ==
    IF i > Len(conds) THEN n
    ELSE IF conds[i].status # us
    THEN set_conditionals(ManifestItem_set(n, conds[i].status, conds[i].cond), conds, i + 1, us)
    ELSE set_conditionals(n, conds, i + 1, us)

\* The handling of new_expected: one outcome per return of
\* group_conditionals.
coalesce_new(n, us) ==
    IF Len(n.new_expected) = 0 THEN {Ok(n)}
    ELSE IF ~synthesizes(n)
    THEN IF n.new_expected[1].status # n.default_status
         THEN {Ok(ManifestItem_set(n, n.new_expected[1].status, NoCondition))}
         ELSE {Ok(n)}
    ELSE {IF g.err # "none" THEN Raise(n, g.err)
          ELSE Ok(set_conditionals(n, g.conds, 1, us)) :
             g \in group_conditionals(n.new_expected)}

\* The two clean-up steps at the end.
coalesce_cleanup(n) ==
    LET k == Len(n.expected)
        n1 == IF n.has_expected /\ k > 0
                 /\ n.heap[n.expected[k]].cond = NoCondition
                 /\ n.heap[n.expected[k]].value = n.default_status
              THEN ManifestItem_remove_value(n, n.expected[k]).n
              ELSE n
    IN IF n1.has_expected /\ Len(n1.expected) = 0
       THEN [n1 EXCEPT !.kv_node = FALSE]
       ELSE n1

\* coalesce_expected: the outcomes the call can have, each the node and the
\* exception raised.
coalesce_expected(n) ==
    LET us == unconditional_status(n)
        s1 == coalesce_tracked(Ok(n), 1, us)
    IN IF s1.err # "none" THEN {s1}
       ELSE {IF s2.err # "none" THEN s2 ELSE Ok(coalesce_cleanup(s2.n)) :
                s2 \in coalesce_new(s1.n, us)}

(***************************************************************************)
(* TestNode.clear_expected                                                 *)
(***************************************************************************)
\* The part of clear_expected that acts on the node itself: the tracked
\* conditions are forgotten and, if the KeyValueNode "expected" is found,
\* it is removed together with _data["expected"]; nothing refers to the
\* ConditionalValue objects any more, so the heap is empty.  new_expected
\* and default_status stay.
clear_expected(n) ==
    LET n1 == [n EXCEPT !.updated_expected = <<>>]
    IN IF n1.has_expected /\ n1.kv_node
       THEN [n1 EXCEPT !.expected = <<>>, !.has_expected = FALSE, !.kv_node = FALSE,
                       !.heap = <<>>]
       ELSE n1

\* The nodes a clear_expected on h reaches: h and, through the subtests
\* maps st, the subtests below it.
RECURSIVE Cleared(_, _)
Cleared(st, h) == {h} \cup UNION {Cleared(st, st[h][name]) : name \in DOMAIN st[h]}

(***************************************************************************)
(* ExpectedManifest: append, _remove_child, get_test, has_test.  The       *)
(* manifest is the object Root; a node without parent has parent NoParent. *)
(* ManifestItem.append adds the child to children and sets its parent;     *)
(* ManifestItem._remove_child removes it from children (list.remove,       *)
(* ValueError if it is not there) and clears its parent.                   *)
(***************************************************************************)
Root == 0

NoParent == -1

\* The empty dict.
EmptyMap == <<>>

\* ExpectedManifest.append without the assertion on the two lengths.
ExpectedManifest_append_unchecked(ch, cm, child, id) ==
    [children |-> Append(ch, child),
     child_map |-> [k \in DOMAIN cm \cup {id} |-> IF k = id THEN child ELSE cm[k]],
     parent |-> Root,
     err |-> "none"]

\* ExpectedManifest.append(child), id being child.id once the child has its
\* parent: the children, the index, the child's parent and the exception.
ExpectedManifest_append(ch, cm, child, id) ==
    LET ch1 == Append(ch, child)
        cm1 == [k \in DOMAIN cm \cup {id} |-> IF k = id THEN child ELSE cm[k]]
    IN [children |-> ch1,
        child_map |-> cm1,
        parent |-> Root,
        err |-> IF Cardinality(DOMAIN cm1) = Len(ch1) THEN "none" ELSE "AssertionError"]

\* ExpectedManifest._remove_child(child); par is child.parent, id is child.id
\* where the child has a parent (id raises AttributeError where it has none).
ExpectedManifest_remove_child(ch, cm, par, child, id) ==
    IF par = NoParent
    THEN [children |-> ch, child_map |-> cm, parent |-> par, err |-> "AttributeError"]
    ELSE IF id \notin DOMAIN cm
    THEN [children |-> ch, child_map |-> cm, parent |-> par, err |-> "KeyError"]
    ELSE LET cm1 == [k \in DOMAIN cm \ {id} |-> cm[k]]
         IN IF child \notin Range(ch)
            THEN [children |-> ch, child_map |-> cm1, parent |-> par, err |-> "ValueError"]
            ELSE LET ch1 == RemoveAt(ch, IndexOf(ch, child))
                 IN [children |-> ch1,
                     child_map |-> cm1,
                     parent |-> NoParent,
                     err |-> IF Cardinality(DOMAIN cm1) = Len(ch1) THEN "none"
                             ELSE "AssertionError"]

has_test(cm, test_id) == test_id \in DOMAIN cm

\* get_test: the node, KeyError for an id that is not indexed.
get_test(cm, test_id) == IF test_id \in DOMAIN cm THEN cm[test_id] ELSE "KeyError"

(***************************************************************************)
(* Subtests: SubtestNode.create, SubtestNode.is_empty, TestNode.append,    *)
(* TestNode.get_subtest                                                    *)
(***************************************************************************)
\* SubtestNode.create(name): a node with no attributes and no evidence.
SubtestNode_create(name) == TestNode(name, None, None, None, <<>>)

\* SubtestNode.is_empty: _data holds no key.
SubtestNode_is_empty(n) == ~n.has_expected

\* TestNode.append(node): the children and the subtests dict of the test.
TestNode_append(ch, st, child, name) ==
    [children |-> Append(ch, child),
     subtests |-> [k \in DOMAIN st \cup {name} |-> IF k = name THEN child ELSE st[k]]]

\* get_subtest creating a subtest on every call.
get_subtest_always(st, name, new) == [subtest |-> new, create |-> TRUE]

\* get_subtest(name) on a test with subtests dict st: the node returned, and
\* whether it is the object new, created and appended by this call.
get_subtest(st, name, new) ==
    IF name \in DOMAIN st THEN [subtest |-> st[name], create |-> FALSE]
    ELSE [subtest |-> new, create |-> TRUE]

(***************************************************************************)
(* Loaded tables                                                           *)
(***************************************************************************)
DebugAndLinux == <<Test("debug", "var", ""), Test("os", "str", "linux")>>

OsWin == <<Test("os", "str", "win")>>

NotDebug == <<Test("debug", "not", "")>>

Tables ==
    { <<>>,
      <<ConditionalValue(NoCondition, "TIMEOUT")>>,
      <<ConditionalValue(DebugAndLinux, "TIMEOUT")>>,
      <<ConditionalValue(OsWin, "FAIL"), ConditionalValue(NoCondition, "PASS")>>,
      <<ConditionalValue(NotDebug, "FAIL"), ConditionalValue(OsWin, "TIMEOUT")>> }

PairTables == { <<>>, <<ConditionalValue(OsWin, "FAIL")>> }

(***************************************************************************)
(* State machine                                                           *)
(***************************************************************************)
\* Every node is a child of the manifest, appended in the order of the
\* handles, and has no subtests.
Attached ==
    /\ children = [c \in {Root} \cup DOMAIN nodes |->
                     IF c = Root THEN [i \in 1..Cardinality(DOMAIN nodes) |-> i] ELSE <<>>]
    /\ child_map = [id \in {TestNode_id(nodes[h]) : h \in DOMAIN nodes} |->
                      CHOOSE h \in DOMAIN nodes : TestNode_id(nodes[h]) = id]
    /\ parent = [h \in DOMAIN nodes |-> Root]
    /\ subtests = [h \in DOMAIN nodes |-> EmptyMap]

\* group_conditionals has not been called.
NoValues ==
    /\ evidence = <<>>
    /\ grouped = [called |-> FALSE, values |-> <<>>, err |-> "none", conds |-> <<>>]

\* One testharness test in the manifest.
Init ==
    /\ \E t \in Tables :
         nodes = [h \in {1} |-> TestNode("a.html", "testharness", None, None, t)]
    /\ modified = FALSE
    /\ last = [op |-> "load", node |-> 0, default_expected |-> None, err |-> "none"]
    /\ calls = [set_result |-> 0, coalesce |-> 0, tree |-> 0]
    /\ batch = [h \in DOMAIN nodes |-> [results |-> <<>>, closed |-> FALSE]]
    /\ Attached
    /\ NoValues

\* Two reftest nodes of one URL.
InitPair ==
    /\ \E t1, t2 \in PairTables :
         nodes = [h \in {1, 2} |->
                    IF h = 1 THEN TestNode("r.html", "reftest", "==", "/ref1.html", t1)
                    ELSE TestNode("r.html", "reftest", "!=", "/ref2.html", t2)]
    /\ modified = FALSE
    /\ last = [op |-> "load", node |-> 0, default_expected |-> None, err |-> "none"]
    /\ calls = [set_result |-> 0, coalesce |-> 0, tree |-> 0]
    /\ batch = [h \in DOMAIN nodes |-> [results |-> <<>>, closed |-> FALSE]]
    /\ Attached
    /\ NoValues

InRunInfos == IF DOMAIN nodes = {1} THEN RunInfos ELSE PairRunInfos

InStatuses == IF DOMAIN nodes = {1} THEN Statuses ELSE PairStatuses

\* An uncaught exception ends the run.
Running == last.err = "none"

\* SetResult with new_expected being one list shared by all nodes.
SetResult_shared(h) ==
    /\ Running
    /\ calls.set_result < MaxResults
    /\ \E run_info \in InRunInfos, status \in InStatuses, de \in DefaultExpecteds :
         LET r == set_result(nodes[h], modified, run_info, status, de)
         IN /\ nodes' = [g \in DOMAIN nodes |->
                           IF g = h THEN r.n
                           ELSE [nodes[g] EXCEPT !.new_expected = r.n.new_expected]]
            /\ modified' = r.modified
            /\ last' = [op |-> "set_result", node |-> h, default_expected |-> de,
                        err |-> r.err]
            /\ batch' = IF r.err # "none" THEN batch
                        ELSE [batch EXCEPT ![h] =
                                 [results |-> IF @.closed THEN <<Result(run_info, status)>>
                                              ELSE Append(@.results, Result(run_info, status)),
                                  closed |-> FALSE]]
    /\ calls' = [calls EXCEPT !.set_result = @ + 1]
    /\ UNCHANGED <<treeVars, synthVars>>

SetResult(h) ==
    /\ Running
    /\ calls.set_result < MaxResults
    /\ \E run_info \in InRunInfos, status \in InStatuses, de \in DefaultExpecteds :
         LET r == set_result(nodes[h], modified, run_info, status, de)
         IN /\ nodes' = [nodes EXCEPT ![h] = r.n]
            /\ modified' = r.modified
            /\ last' = [op |-> "set_result", node |-> h, default_expected |-> de,
                        err |-> r.err]
            /\ batch' = IF r.err # "none" THEN batch
                        ELSE [batch EXCEPT ![h] =
                                 [results |-> IF @.closed THEN <<Result(run_info, status)>>
                                              ELSE Append(@.results, Result(run_info, status)),
                                  closed |-> FALSE]]
    /\ calls' = [calls EXCEPT !.set_result = @ + 1]
    /\ UNCHANGED <<treeVars, synthVars>>

Coalesce(h) ==
    /\ Running
    /\ calls.coalesce < MaxCoalesce
    /\ \E r \in coalesce_expected(nodes[h]) :
         /\ nodes' = [nodes EXCEPT ![h] = r.n]
         /\ last' = [op |-> "coalesce_expected", node |-> h, default_expected |-> None,
                     err |-> r.err]
    /\ batch' = [batch EXCEPT ![h] =
                     [results |-> IF @.closed THEN <<>> ELSE @.results, closed |-> TRUE]]
    /\ modified' = modified
    /\ calls' = [calls EXCEPT !.coalesce = @ + 1]
    /\ UNCHANGED <<treeVars, synthVars>>

\* clear_expected on node h, which has something to clear in itself or in a
\* subtest (a call that finds nothing to clear changes nothing).
ClearExpected(h) ==
    /\ Running
    /\ \E g \in Cleared(subtests, h) : clear_expected(nodes[g]) # nodes[g]
    /\ nodes' = [g \in DOMAIN nodes |->
                    IF g \in Cleared(subtests, h) THEN clear_expected(nodes[g])
                    ELSE nodes[g]]
    /\ last' = [op |-> "clear_expected", node |-> h, default_expected |-> None,
                err |-> "none"]
    /\ UNCHANGED <<modified, calls, batch, treeVars, synthVars>>

\* The test nodes a caller holds, none of them in the manifest yet: two
\* testharness tests of one URL, two reftests of one URL, reftype and refurl,
\* and a reftest of that URL with another reference.
Pool ==
    [h \in 1..5 |->
        CASE h = 1 -> TestNode("a.html", "testharness", None, None, <<>>)
          [] h = 2 -> TestNode("a.html", "testharness", None, None, <<>>)
          [] h = 3 -> TestNode("r.html", "reftest", "==", "/ref1.html", <<>>)
          [] h = 4 -> TestNode("r.html", "reftest", "==", "/ref1.html", <<>>)
          [] h = 5 -> TestNode("r.html", "reftest", "!=", "/ref2.html", <<>>)]

\* An empty manifest and the nodes of Pool.
InitManifest ==
    /\ nodes = Pool
    /\ modified = FALSE
    /\ last = [op |-> "load", node |-> 0, default_expected |-> None, err |-> "none"]
    /\ calls = [set_result |-> 0, coalesce |-> 0, tree |-> 0]
    /\ batch = [h \in DOMAIN nodes |-> [results |-> <<>>, closed |-> FALSE]]
    /\ children = [c \in {Root} \cup DOMAIN nodes |-> <<>>]
    /\ child_map = EmptyMap
    /\ parent = [h \in DOMAIN nodes |-> NoParent]
    /\ subtests = [h \in DOMAIN nodes |-> EmptyMap]
    /\ NoValues

SubtestNames == {"s1", "s2"}

\* One testharness test in the manifest, without subtests or with the
\* subtest "s1" read from the file.
InitSubtests ==
    /\ \E from_file \in BOOLEAN, t \in PairTables :
         /\ nodes = [h \in (IF from_file THEN {1, 2} ELSE {1}) |->
                        IF h = 1 THEN TestNode("a.html", "testharness", None, None, <<>>)
                        ELSE TestNode("s1", None, None, None, t)]
         /\ children = [c \in {Root} \cup DOMAIN nodes |->
                          IF c = Root THEN <<1>>
                          ELSE IF c = 1 /\ from_file THEN <<2>> ELSE <<>>]
         /\ parent = [h \in DOMAIN nodes |-> IF h = 1 THEN Root ELSE 1]
         /\ subtests = [h \in DOMAIN nodes |->
                          IF h = 1 /\ from_file THEN [k \in {"s1"} |-> 2] ELSE EmptyMap]
    /\ child_map = [id \in {TestNode_id(nodes[1])} |-> 1]
    /\ modified = FALSE
    /\ last = [op |-> "load", node |-> 0, default_expected |-> None, err |-> "none"]
    /\ calls = [set_result |-> 0, coalesce |-> 0, tree |-> 0]
    /\ batch = [h \in DOMAIN nodes |-> [results |-> <<>>, closed |-> FALSE]]
    /\ NoValues

\* A manifest that takes no part: the Results go to group_conditionals.
InitSynth == Init /\ ~nodes[1].has_expected

\* ExpectedManifest.append(h).  A caller may catch the exception and go on.
AppendChild(h) ==
    /\ calls.tree < MaxTreeOps
    /\ LET r == ExpectedManifest_append(children[Root], child_map, h,
                                        TestNode_id(nodes[h]))
       IN /\ children' = [children EXCEPT ![Root] = r.children]
          /\ child_map' = r.child_map
          /\ parent' = [parent EXCEPT ![h] = r.parent]
          /\ last' = [op |-> "append", node |-> h, default_expected |-> None,
                      err |-> r.err]
    /\ calls' = [calls EXCEPT !.tree = @ + 1]
    /\ UNCHANGED <<nodes, modified, batch, subtests, synthVars>>

\* ExpectedManifest._remove_child(h).
RemoveChild(h) ==
    /\ calls.tree < MaxTreeOps
    /\ LET r == ExpectedManifest_remove_child(children[Root], child_map, parent[h], h,
                                              TestNode_id(nodes[h]))
       IN /\ children' = [children EXCEPT ![Root] = r.children]
          /\ child_map' = r.child_map
          /\ parent' = [parent EXCEPT ![h] = r.parent]
          /\ last' = [op |-> "_remove_child", node |-> h, default_expected |-> None,
                      err |-> r.err]
    /\ calls' = [calls EXCEPT !.tree = @ + 1]
    /\ UNCHANGED <<nodes, modified, batch, subtests, synthVars>>

\* get_subtest(name) on the test node h.
GetSubtest(h, name) ==
    /\ Running
    /\ calls.tree < MaxTreeOps
    /\ LET new == Cardinality(DOMAIN nodes) + 1
           r == get_subtest(subtests[h], name, new)
           a == TestNode_append(children[h], subtests[h], new, name)
       IN /\ IF r.create
             THEN /\ nodes' = [g \in DOMAIN nodes \cup {new} |->
                                 IF g = new THEN SubtestNode_create(name) ELSE nodes[g]]
                  /\ children' = [c \in DOMAIN children \cup {new} |->
                                    IF c = h THEN a.children
                                    ELSE IF c = new THEN <<>> ELSE children[c]]
                  /\ parent' = [g \in DOMAIN nodes \cup {new} |->
                                  IF g = new THEN h ELSE parent[g]]
                  /\ subtests' = [g \in DOMAIN nodes \cup {new} |->
                                    IF g = h THEN a.subtests
                                    ELSE IF g = new THEN EmptyMap ELSE subtests[g]]
                  /\ batch' = [g \in DOMAIN nodes \cup {new} |->
                                 IF g = new THEN [results |-> <<>>, closed |-> FALSE]
                                 ELSE batch[g]]
             ELSE UNCHANGED <<nodes, children, parent, subtests, batch>>
          /\ last' = [op |-> "get_subtest", node |-> h, default_expected |-> None,
                      err |-> "none", name |-> name, subtest |-> r.subtest]
    /\ calls' = [calls EXCEPT !.tree = @ + 1]
    /\ UNCHANGED <<modified, child_map, synthVars>>

\* set_result on the subtest s, with the default_expected of subtests.
SubtestResult(s) ==
    /\ Running
    /\ calls.set_result < MaxResults
    /\ \E run_info \in PairRunInfos, status \in PairStatuses :
         LET r == set_result(nodes[s], modified, run_info, status, "PASS")
         IN /\ nodes' = [nodes EXCEPT ![s] = r.n]
            /\ modified' = r.modified
            /\ last' = [op |-> "set_result", node |-> s, default_expected |-> "PASS",
                        err |-> r.err]
            /\ batch' = [batch EXCEPT ![s] =
                            [results |-> IF @.closed THEN <<Result(run_info, status)>>
                                         ELSE Append(@.results, Result(run_info, status)),
                             closed |-> FALSE]]
    /\ calls' = [calls EXCEPT !.set_result = @ + 1]
    /\ UNCHANGED <<treeVars, synthVars>>

\* One more Result in the list that group_conditionals is then called with.
AddValue ==
    /\ ~grouped.called
    /\ Len(evidence) < MaxValues
    /\ \E run_info \in SynthRunInfos, status \in Statuses :
         evidence' = Append(evidence, Result(run_info, status))
    /\ UNCHANGED <<nodes, modified, last, calls, batch, treeVars, grouped>>

\* group_conditionals(evidence), called once for the list.
Group ==
    /\ ~grouped.called
    /\ Len(evidence) > 0
    /\ \E g \in group_conditionals(evidence) :
         grouped' = [called |-> TRUE, values |-> evidence, err |-> g.err,
                     conds |-> g.conds]
    /\ UNCHANGED <<nodes, modified, last, calls, batch, treeVars, evidence>>

Next == \E h \in DOMAIN nodes : SetResult(h) \/ Coalesce(h) \/ ClearExpected(h)

\* Evidence is recorded and coalesced on the tests of one manifest.
NextPair == \E h \in DOMAIN nodes : SetResult(h) \/ Coalesce(h)

NextManifest == \E h \in DOMAIN nodes : AppendChild(h) \/ RemoveChild(h)

\* Subtests are fetched from the tests of the manifest; evidence is
\* recorded on the subtests.
NextSubtests ==
    \/ \E h \in Range(children[Root]) : \E name \in SubtestNames : GetSubtest(h, name)
    \/ \E s \in DOMAIN nodes : parent[s] # Root /\ SubtestResult(s)
    \/ \E h \in Range(children[Root]) : ClearExpected(h)

NextSynth == AddValue \/ Group

Spec == Init /\ [][Next]_vars

SpecPair == InitPair /\ [][NextPair]_vars

SpecManifest == InitManifest /\ [][NextManifest]_vars

SpecSubtests == InitSubtests /\ [][NextSubtests]_vars

SpecSynth == InitSynth /\ [][NextSynth]_vars

TypeOK ==
    /\ modified \in BOOLEAN
    /\ \A h \in DOMAIN nodes :
         /\ nodes[h].has_expected = (Len(nodes[h].expected) > 0)
         /\ nodes[h].kv_node = nodes[h].has_expected

(***************************************************************************)
(* Properties                                                              *)
(***************************************************************************)
\* This step is a call of coalesce_expected on node h.
CoalesceStep(h) ==
    /\ calls'.coalesce = calls.coalesce + 1
    /\ last'.node = h

\* This step is a call of set_result on node h.
SetResultStep(h) ==
    /\ calls'.set_result = calls.set_result + 1
    /\ last'.node = h

\* All Results held in the buckets of node n.
Bucketed(n) ==
    Range(n.new_expected) \cup
    UNION {Range(n.updated_expected[i].results) : i \in 1..Len(n.updated_expected)}

\* C1: calling coalesce_expected twice in a row, with no set_result in
\* between, leaves the stored expected entries and the presence of the
\* attribute as the first call left them (stated for a second call that
\* returns).
C1_CoalesceIdempotent ==
    [][\A h \in DOMAIN nodes :
          (/\ last.op = "coalesce_expected" /\ last.node = h
           /\ CoalesceStep(h) /\ last'.err = "none")
          => /\ Stored(nodes'[h]) = Stored(nodes[h])
             /\ nodes'[h].has_expected = nodes[h].has_expected
             /\ nodes'[h].kv_node = nodes[h].kv_node]_vars

\* A stored entry of n whose condition holds for r and whose value is r's
\* status, or r has the unconditional default of n.
Reflected(n, r) ==
    \/ \E i \in 1..Len(n.expected) :
          /\ CondHolds(n.heap[n.expected[i]].cond, r.run_info)
          /\ n.heap[n.expected[i]].value = r.status
    \/ r.status = unconditional_status(n)

\* C2: every Result recorded between two coalesce_expected calls is, after
\* the second call, reflected by a stored condition that holds for its
\* descriptor and carries its status, or by the unconditional default.
C2_NoSilentLoss ==
    \A h \in DOMAIN nodes :
        (/\ last.op = "coalesce_expected" /\ last.node = h /\ last.err = "none"
         /\ calls.coalesce >= 2)
        => \A r \in Range(batch[h].results) : Reflected(nodes[h], r)

\* The node as coalesce_expected sees it when it examines new_expected.
AfterTracked(n) == coalesce_tracked(Ok(n), 1, unconditional_status(n))

\* All unplaced Results share one status that is not the default.
OneNewStatus(n) ==
    /\ AfterTracked(n).err = "none"
    /\ Len(AfterTracked(n).n.new_expected) > 0
    /\ AllSame(AfterTracked(n).n.new_expected)
    /\ AfterTracked(n).n.new_expected[1].status # n.default_status

\* The stored objects of m that n stored too, with the same contents.
Untouched(n, m) ==
    {cv \in Range(m.expected) : cv \in Range(n.expected) /\ m.heap[cv] = n.heap[cv]}

\* The stored objects of n that carry a condition, in stored order.
Conditionals(n) == SelectSeq(n.expected, LAMBDA cv : n.heap[cv].cond # NoCondition)

\* C3 as claimed: whenever all unplaced Results share one status S that is
\* not default_status, coalesce_expected leaves exactly one entry besides the
\* untouched pre-existing ones, and it is unconditional with value S, whether
\* or not the node has tracked conditions.
C3_MinimalityAnyNode ==
    [][\A h \in DOMAIN nodes :
          (CoalesceStep(h) /\ last'.err = "none" /\ OneNewStatus(nodes[h]))
          => LET added == Range(nodes'[h].expected) \ Untouched(nodes[h], nodes'[h])
                 S == AfterTracked(nodes[h]).n.new_expected[1].status
             IN /\ Cardinality(added) = 1
                /\ \A cv \in added :
                      nodes'[h].heap[cv] = ConditionalValue(NoCondition, S)]_vars

\* C3 amended: the same for a node without tracked conditions; the one
\* unconditional entry with value S is then the only unconditional entry and
\* the conditional entries are the pre-existing ones, untouched.
C3_Minimality ==
    [][\A h \in DOMAIN nodes :
          (/\ CoalesceStep(h) /\ last'.err = "none" /\ OneNewStatus(nodes[h])
           /\ Len(nodes[h].updated_expected) = 0)
          => LET S == AfterTracked(nodes[h]).n.new_expected[1].status
                 uncond == {cv \in Range(nodes'[h].expected) :
                               nodes'[h].heap[cv].cond = NoCondition}
             IN /\ Cardinality(uncond) = 1
                /\ \A cv \in uncond : nodes'[h].heap[cv].value = S
                /\ Conditionals(nodes'[h]) = Conditionals(nodes[h])
                /\ \A cv \in Range(Conditionals(nodes[h])) :
                      nodes'[h].heap[cv] = nodes[h].heap[cv]]_vars

\* C3 witness: a node without tracked conditions whose unplaced Results all
\* had one non-default status has been coalesced to one unconditional entry.
C3_Witness ==
    \E h \in DOMAIN nodes :
        /\ last.op = "coalesce_expected" /\ last.node = h /\ last.err = "none"
        /\ Len(nodes[h].updated_expected) = 0
        /\ Len(nodes[h].new_expected) > 1
        /\ AllSame(nodes[h].new_expected)
        /\ nodes[h].new_expected[1].status # nodes[h].default_status
        /\ Stored(nodes[h]) =
              <<ConditionalValue(NoCondition, nodes[h].new_expected[1].status)>>

\* The stored objects of n that are tracked with an empty matched-results
\* list.
Untested(n) ==
    {cv \in Range(n.expected) :
        \E i \in 1..Len(n.updated_expected) :
            n.updated_expected[i].cv = cv /\ n.updated_expected[i].results = <<>>}

\* C4: after coalesce_expected returns, no stored entry with a condition has
\* the value of the applicable default (the stored unconditional entry, else
\* default_status), and a node left without entries has no expected
\* attribute at all.  Stated for the entries the node has evidence for.
C4_DefaultCollapse ==
    \A h \in DOMAIN nodes :
        (last.op = "coalesce_expected" /\ last.node = h /\ last.err = "none")
        => /\ \A cv \in Range(nodes[h].expected) \ Untested(nodes[h]) :
                 nodes[h].heap[cv].cond # NoCondition
                 => nodes[h].heap[cv].value # unconditional_status(nodes[h])
           /\ Len(nodes[h].expected) = 0
                 => ~nodes[h].has_expected /\ ~nodes[h].kv_node

\* The pre-existing entries that are still stored keep their order.
OrderKept(n, m) ==
    SelectSeq(m.expected, LAMBDA cv : cv \in Range(n.expected)) =
    SelectSeq(n.expected, LAMBDA cv : cv \in Range(m.expected))

\* An unconditional entry at the end of the list that repeats default_status.
RedundantDefault(n, cv) ==
    /\ cv = n.expected[Len(n.expected)]
    /\ n.heap[cv].cond = NoCondition
    /\ n.heap[cv].value = n.default_status

DifferOnlyIn(results, p) ==
    /\ \E i, j \in 1..Len(results) : results[i].run_info[p] # results[j].run_info[p]
    /\ \A i, j \in 1..Len(results) :
          /\ \A q \in Range(prop_order) \ {p} :
                results[i].run_info[q] = results[j].run_info[q]
          /\ results[i].run_info[p] = results[j].run_info[p]
                => results[i].status = results[j].status

\* C6: a node without expected attribute and with default status D, whose
\* Results differ only in one property p and do not all have one status, is
\* coalesced to exactly one entry `p == v -> S` per value v whose status S is
\* not D, and default_status is still D.
C6_DivergentEvidence ==
    [][\A h \in DOMAIN nodes : \A p \in Range(prop_order) :
          (/\ CoalesceStep(h) /\ last'.err = "none"
           /\ ~nodes[h].has_expected /\ Len(nodes[h].updated_expected) = 0
           /\ Len(nodes[h].new_expected) > 0
           /\ ~AllSame(nodes[h].new_expected)
           /\ DifferOnlyIn(nodes[h].new_expected, p))
          => LET want == {ConditionalValue(<<make_test(p, r.run_info[p])>>, r.status) :
                             r \in {x \in Range(nodes[h].new_expected) :
                                        x.status # nodes[h].default_status}}
             IN /\ Range(Stored(nodes'[h])) = want
                /\ Len(nodes'[h].expected) = Cardinality(want)
                /\ nodes'[h].default_status = nodes[h].default_status]_vars

\* Bucket 0 of a node is new_expected, bucket i the matched Results of its
\* i-th tracked condition.
Bucket(n, i) == IF i = 0 THEN n.new_expected ELSE n.updated_expected[i].results

TrackedCond(n, i) == n.heap[n.updated_expected[i].cv].cond

\* C7: a set_result that returns appends the Result to exactly one bucket:
\* that of the first tracked condition, in stored order, that holds for the
\* descriptor, or new_expected if none holds; the other buckets and the
\* stored conditions, their statuses and their order stay as they were.
C7_FirstMatchWins ==
    [][\A h \in DOMAIN nodes :
          (SetResultStep(h) /\ last'.err = "none")
          => LET n == nodes[h]
                 m == nodes'[h]
             IN /\ m.heap = n.heap
                /\ m.expected = n.expected
                /\ m.has_expected = n.has_expected
                /\ Len(m.updated_expected) = Len(n.updated_expected)
                /\ \A k \in 1..Len(n.updated_expected) :
                      m.updated_expected[k].cv = n.updated_expected[k].cv
                /\ \E i \in 0..Len(n.updated_expected) :
                      /\ Len(Bucket(m, i)) = Len(Bucket(n, i)) + 1
                      /\ SubSeq(Bucket(m, i), 1, Len(Bucket(n, i))) = Bucket(n, i)
                      /\ \A j \in 0..Len(n.updated_expected) :
                            j # i => Bucket(m, j) = Bucket(n, j)
                      /\ LET r == Bucket(m, i)[Len(Bucket(m, i))]
                         IN /\ i > 0 => CondHolds(TrackedCond(n, i), r.run_info)
                            /\ \A k \in 1..Len(n.updated_expected) :
                                  (i = 0 \/ k < i)
                                  => ~CondHolds(TrackedCond(n, k), r.run_info)]_vars

\* C7 witness: a Result that two tracked conditions hold for has been placed
\* with the first of them.
C7_Witness ==
    \E h \in DOMAIN nodes :
        /\ last.op = "set_result" /\ last.node = h /\ last.err = "none"
        /\ \E i, j \in 1..Len(nodes[h].updated_expected) :
              /\ i < j
              /\ Len(Bucket(nodes[h], i)) > 0
              /\ CondHolds(TrackedCond(nodes[h], j), Bucket(nodes[h], i)[1].run_info)

\* C8: the order in which the same Results were recorded does not matter:
\* with the unplaced Results in any other order, coalesce_expected stores
\* the same entries.
C8_OrderIrrelevant ==
    \A h \in DOMAIN nodes :
        calls.coalesce = 0
        => \A p \in Permutations(1..Len(nodes[h].new_expected)) :
              LET n == nodes[h]
                  m == [n EXCEPT !.new_expected = [k \in 1..Len(@) |-> @[p[k]]]]
              IN \A a \in coalesce_expected(n) : \A b \in coalesce_expected(m) :
                    (a.err = "none" /\ b.err = "none")
                    => Range(Stored(a.n)) = Range(Stored(b.n))

\* C9: set_result and coalesce_expected on one node leave every other node
\* of the manifest (one with another id, also when the URL is the same) as it
\* was: default_status, tracked conditions, matched Results, unplaced
\* evidence and stored entries; of the shared state only root.modified may
\* change.
C9_NodeIndependence ==
    [][\A h, g \in DOMAIN nodes :
          (/\ h # g
           /\ TestNode_id(nodes[h]) # TestNode_id(nodes[g])
           /\ SetResultStep(h) \/ CoalesceStep(h))
          => nodes'[g] = nodes[g]]_vars

\* C9 witness: two reftest nodes of one URL both hold evidence and one of
\* them has been coalesced to a stored entry.
C9_Witness ==
    \E h, g \in DOMAIN nodes :
        /\ h # g
        /\ nodes[h].name = nodes[g].name
        /\ TestNode_id(nodes[h]) # TestNode_id(nodes[g])
        /\ last.op = "coalesce_expected" /\ last.node = h /\ last.err = "none"
        /\ Len(nodes[h].expected) > 0
        /\ Len(nodes[h].new_expected) > 0
        /\ Bucketed(nodes[g]) # {}

\* C10: a default_status that is set never changes, the first set_result
\* sets it, and a set_result with another default_expected fails and leaves
\* the node and root.modified as they were.
C10_DefaultConsistency ==
    [][\A h \in DOMAIN nodes :
          /\ nodes[h].default_status # None
                => nodes'[h].default_status = nodes[h].default_status
          /\ (SetResultStep(h) /\ nodes[h].default_status = None)
                => nodes'[h].default_status = last'.default_expected
          /\ (SetResultStep(h) /\ nodes[h].default_status # None
              /\ nodes[h].default_status # last'.default_expected)
                => /\ last'.err = "AssertionError"
                   /\ nodes'[h] = nodes[h]
                   /\ modified' = modified]_vars

\* C10 witness: a set_result with another default_expected has failed on a
\* node that holds evidence.
C10_Witness ==
    \E h \in DOMAIN nodes :
        /\ last.op = "set_result" /\ last.node = h /\ last.err = "AssertionError"
        /\ nodes[h].default_status # None
        /\ nodes[h].default_status # last.default_expected
        /\ Bucketed(nodes[h]) # {}

\* The children of the manifest.
Children == children[Root]

\* Every child is indexed under its own id.
ChildrenIndexed ==
    \A i \in 1..Len(Children) :
        /\ has_test(child_map, TestNode_id(nodes[Children[i]]))
        /\ get_test(child_map, TestNode_id(nodes[Children[i]])) = Children[i]

\* Every index entry refers to a current child, under that child's id.
IndexCurrent ==
    \A id \in DOMAIN child_map :
        /\ child_map[id] \in Range(Children)
        /\ TestNode_id(nodes[child_map[id]]) = id

\* C11: after any sequence of ExpectedManifest.append and _remove_child
\* calls, the failed ones included, child_map and children are in 1:1
\* correspondence: every child is indexed under its own id, every index entry
\* refers to a current child, and there are as many entries as children.
C11_IndexInvariant ==
    /\ ChildrenIndexed
    /\ IndexCurrent
    /\ Cardinality(DOMAIN child_map) = Len(Children)

\* This step is a call of ExpectedManifest.append on node h.
AppendStep(h) ==
    /\ calls'.tree = calls.tree + 1
    /\ last'.op = "append"
    /\ last'.node = h

\* The manifest has a child, or an index entry, with the id of node h.
Duplicate(h) ==
    \/ \E i \in 1..Len(Children) : TestNode_id(nodes[Children[i]]) = TestNode_id(nodes[h])
    \/ has_test(child_map, TestNode_id(nodes[h]))

\* C12: ExpectedManifest.append of a node whose id a child of the manifest
\* already has raises an exception, for URL ids and for reftest triples; and
\* an append that returns leaves has_test and get_test of every id that was
\* indexed as they were.
C12_DuplicateRejected ==
    [][\A h \in DOMAIN nodes :
          AppendStep(h)
          => /\ Duplicate(h) => last'.err # "none"
             /\ last'.err = "none"
                   => \A id \in DOMAIN child_map :
                         /\ has_test(child_map', id)
                         /\ get_test(child_map', id) = get_test(child_map, id)]_vars

\* C12 witness: the manifest holds a testharness test and a reftest, and the
\* append of a second reftest node with the id triple of the first has just
\* raised.
C12_Witness ==
    /\ last.op = "append"
    /\ last.err # "none"
    /\ nodes[last.node].test_type = "reftest"
    /\ \E i, j \in 1..Len(Children) :
          /\ Children[i] # last.node
          /\ TestNode_id(nodes[Children[i]]) = TestNode_id(nodes[last.node])
          /\ nodes[Children[j]].test_type = "testharness"

\* This step is a call of get_subtest on the test node h.
GetSubtestStep(h) ==
    /\ calls'.tree = calls.tree + 1
    /\ last'.op = "get_subtest"
    /\ last'.node = h

\* The step leaves the nodes, their children and their subtests as they were.
NothingAttached ==
    /\ nodes' = nodes
    /\ children' = children
    /\ subtests' = subtests
    /\ parent' = parent

\* The step attaches the one new node s to the test h as subtest name, empty
\* and without evidence, and leaves every other node as it was.
OneAttached(h, name, s) ==
    /\ s \notin DOMAIN nodes
    /\ DOMAIN nodes' = DOMAIN nodes \cup {s}
    /\ nodes'[s].name = name
    /\ SubtestNode_is_empty(nodes'[s])
    /\ Bucketed(nodes'[s]) = {}
    /\ parent'[s] = h
    /\ children'[h] = Append(children[h], s)
    /\ DOMAIN subtests'[h] = DOMAIN subtests[h] \cup {name}
    /\ subtests'[h][name] = s
    /\ \A g \in DOMAIN nodes :
          /\ nodes'[g] = nodes[g]
          /\ parent'[g] = parent[g]
          /\ g # h => children'[g] = children[g] /\ subtests'[g] = subtests[g]

\* C13: get_subtest(name) returns the subtest the test already has under
\* that name and attaches nothing; for a name the test does not have it
\* attaches exactly one new subtest, empty and without evidence, and returns
\* it; and no call, of get_subtest or set_result, changes which node a name
\* of the test refers to, so all calls for one name return the same node and
\* the subtests of other names are unaffected.
C13_GetSubtestIdempotent ==
    [][\A h \in DOMAIN nodes :
          /\ GetSubtestStep(h)
                => IF last'.name \in DOMAIN subtests[h]
                   THEN /\ last'.subtest = subtests[h][last'.name]
                        /\ NothingAttached
                   ELSE OneAttached(h, last'.name, last'.subtest)
          /\ \A name \in DOMAIN subtests[h] :
                /\ name \in DOMAIN subtests'[h]
                /\ subtests'[h][name] = subtests[h][name]]_vars

\* C13 witness: get_subtest has just returned, for a name it was called with
\* before, a subtest that holds evidence by now, while the test has a subtest
\* of another name too.
C13_Witness ==
    /\ last.op = "get_subtest"
    /\ calls.tree >= 3
    /\ Cardinality(DOMAIN subtests[last.node]) = 2
    /\ subtests[last.node][last.name] = last.subtest
    /\ Bucketed(nodes[last.subtest]) # {}
    /\ Len(children[last.node]) = 2

\* The bucket of m that holds one Result more than in n: 0 for
\* new_expected, i for the i-th tracked condition.
GrownBucket(n, m) ==
    CHOOSE i \in 0..Len(n.updated_expected) : Len(Bucket(m, i)) = Len(Bucket(n, i)) + 1

\* The Result that the step from n to m recorded implies an expectation
\* different from the stored one: it matched no tracked condition, or its
\* status is not the status of the condition it matched.
ImpliesChange(n, m) ==
    LET i == GrownBucket(n, m)
        r == Bucket(m, i)[Len(Bucket(m, i))]
    IN i = 0 \/ r.status # n.heap[n.updated_expected[i].cv].value

\* C14: root.modified is false when the file is loaded; a set_result that
\* records a Result leaves it true if it was true or if the Result implies an
\* expectation different from the stored one, and false otherwise; a
\* set_result that fails and a coalesce_expected leave it as it was.  So it
\* is true exactly when some recorded Result implied a change, and is never
\* reset.
C14_DirtyFlag ==
    /\ modified = FALSE
    /\ [][\A h \in DOMAIN nodes :
             /\ (SetResultStep(h) /\ last'.err = "none")
                   => modified' = (modified \/ ImpliesChange(nodes[h], nodes'[h]))
             /\ (SetResultStep(h) /\ last'.err # "none") => modified' = modified
             /\ CoalesceStep(h) => modified' = modified
             /\ modified => modified']_vars

\* C14 witness: the only Results recorded matched a tracked condition, one of
\* them with another status than the condition's, and the flag is still set
\* after a coalesce_expected and a later Result that agrees with its
\* condition.
C14_Witness ==
    \E h \in DOMAIN nodes :
        /\ modified
        /\ calls.coalesce > 0
        /\ last.op = "set_result" /\ last.node = h /\ last.err = "none"
        /\ \E i \in 1..Len(nodes[h].updated_expected) :
              LET b == Bucket(nodes[h], i)
              IN /\ Len(b) > 1
                 /\ b[Len(b)].status = nodes[h].heap[nodes[h].updated_expected[i].cv].value
        /\ \A r \in Range(nodes[h].new_expected) :
              \E i \in 1..Len(nodes[h].updated_expected) : r \in Range(Bucket(nodes[h], i))

\* No tracked condition of n is stored any more in a, the node as the loop
\* over the tracked conditions left it.
NoneSurvived(n, a) ==
    \A i \in 1..Len(n.updated_expected) : n.updated_expected[i].cv \notin Range(a.expected)

\* The stored entries of m that a did not store, or stored with another value.
Written(a, m) ==
    {cv \in Range(m.expected) : cv \notin Range(a.expected) \/ m.heap[cv] # a.heap[cv]}

\* C15: when, after the loop over the tracked conditions, the unplaced
\* evidence is non-empty and of one status S and no tracked condition is
\* still stored (the node had none, or all were dropped), coalesce_expected
\* returns having written nothing if S is default_status, and otherwise
\* nothing but one unconditional entry with value S.
C15_UnconditionalShortcut ==
    [][\A h \in DOMAIN nodes :
          (/\ CoalesceStep(h)
           /\ AfterTracked(nodes[h]).err = "none"
           /\ Len(AfterTracked(nodes[h]).n.new_expected) > 0
           /\ AllSame(AfterTracked(nodes[h]).n.new_expected)
           /\ NoneSurvived(nodes[h], AfterTracked(nodes[h]).n))
          => LET a == AfterTracked(nodes[h]).n
                 m == nodes'[h]
                 S == a.new_expected[1].status
                 uncond == {cv \in Range(m.expected) : m.heap[cv].cond = NoCondition}
             IN /\ last'.err = "none"
                /\ IF S = a.default_status THEN Written(a, m) = {}
                   ELSE /\ Cardinality(uncond) = 1
                        /\ \A cv \in uncond : m.heap[cv].value = S
                        /\ Written(a, m) \subseteq uncond]_vars

\* The tracked conditions of n that have a predicate and whose matched
\* Results do not all have one status.
Conflicting(n) ==
    {i \in 1..Len(n.updated_expected) :
        /\ TrackedCond(n, i) # NoCondition
        /\ Len(Bucket(n, i)) > 0
        /\ ~AllSame(Bucket(n, i))}

\* C16: a coalesce_expected on a node with a tracked conditional entry whose
\* matched Results disagree returns with that entry no longer stored and all
\* its matched Results in the unplaced evidence, and none of them is
\* discarded: each is reflected by a stored entry or the default afterwards.
C16_ConflictMoved ==
    [][\A h \in DOMAIN nodes :
          CoalesceStep(h)
          => \A i \in Conflicting(nodes[h]) :
                /\ last'.err = "none"
                /\ nodes[h].updated_expected[i].cv \notin Range(nodes'[h].expected)
                /\ \A r \in Range(Bucket(nodes[h], i)) :
                      /\ r \in Range(nodes'[h].new_expected)
                      /\ Reflected(nodes'[h], r)]_vars

\* C17: between operations the tracked conditions of a node are exactly
\* the entries stored in its expected attribute, in the same order.
C17_TrackedMirrorsStored ==
    \A h \in DOMAIN nodes :
        [i \in 1..Len(nodes[h].updated_expected) |-> nodes[h].updated_expected[i].cv]
            = nodes[h].expected

\* C18: when coalesce_expected has gone through the tracked conditions and
\* is about to look at new_expected, no Result in new_expected satisfies the
\* predicate of an entry that is still stored, the unconditional one apart.
C18_NewExpectedUnmatched ==
    [][\A h \in DOMAIN nodes :
          (CoalesceStep(h) /\ AfterTracked(nodes[h]).err = "none")
          => LET a == AfterTracked(nodes[h]).n
             IN \A r \in Range(a.new_expected) : \A cv \in Range(a.expected) :
                   a.heap[cv].cond # NoCondition
                   => ~CondHolds(a.heap[cv].cond, r.run_info)]_vars

\* The properties a predicate tests, in the order it tests them.
PropsOf(cond) == [k \in 1..Len(cond) |-> cond[k].prop]

\* The place of a property in the fixed order.
Priority(p) == IndexOf(prop_order, p)

\* C19: the predicates of one group_conditionals call all test the same
\* properties, which are the properties selected for the call, each once and
\* in the order debug, os, version, processor, bits, the first selected
\* property first.
C19_PropertyOrder ==
    (grouped.called /\ grouped.err = "none")
    => \A k \in 1..Len(grouped.conds) :
          LET ps == PropsOf(grouped.conds[k].cond)
          IN /\ Len(ps) > 0
             /\ ps = PropsOf(grouped.conds[1].cond)
             /\ Range(ps) = properties(grouped.values)
             /\ \A i, j \in 1..Len(ps) : i < j => Priority(ps[i]) < Priority(ps[j])

\* C19 witness: group_conditionals has returned two predicates that each
\* test os, version and bits, in this order, and no other property.
C19_Witness ==
    /\ grouped.called
    /\ grouped.err = "none"
    /\ Len(grouped.conds) = 2
    /\ \A k \in 1..2 : PropsOf(grouped.conds[k].cond) = <<"os", "version", "bits">>
    /\ grouped.conds[1].cond # grouped.conds[2].cond

\* C20: a coalesce_expected that reaches the synthesizer selects at least one
\* property, so make_expr's assertion holds and the call does not abort.
C20_SynthesizerNeverAborts ==
    [][\A h \in DOMAIN nodes :
          (/\ CoalesceStep(h)
           /\ AfterTracked(nodes[h]).err = "none"
           /\ synthesizes(AfterTracked(nodes[h]).n))
          => /\ Len(include_props(AfterTracked(nodes[h]).n.new_expected)) > 0
             /\ last'.err # "AssertionError"]_vars

====
